---- MODULE Spec2Model ----
(***************************************************************************)
(* Live Incident Room backend: the in-memory IncidentStore, the job queue  *)
(* with its pool of enrichment workers serialised by per-incident          *)
(* asyncio locks, and the WebSocketRoomManager that fans events out.       *)
(*                                                                         *)
(* Everything but create_incident runs as a coroutine on one asyncio event *)
(* loop, so a coroutine runs atomically from one suspension to the next.   *)
(* An action of this module is one such run.  The suspensions are:         *)
(* queue.get() on an empty queue, acquiring a held or contended            *)
(* asyncio.Lock, websocket.accept / send_json / receive_json, and          *)
(* asyncio.sleep.  queue.put on the unbounded queue and the room           *)
(* directory lock (never held across an await) do not suspend.             *)
(*                                                                         *)
(* The status of an incident is a member of the enum IncidentStatus(str,    *)
(* Enum).  The handlers test it with str(status) == "resolved"; str() of    *)
(* a member of such an enum is "IncidentStatus.<name>", and str below is    *)
(* that conversion.                                                        *)
(*                                                                         *)
(* Message texts are left out: tags and summary are computed from the      *)
(* text but no branch of the handlers depends on them.  An event keeps its *)
(* type, the id of a human_update (uuid4, modelled as a fresh number), the *)
(* source_event_id of an ai event and the from/to of a status_change.      *)
(***************************************************************************)
EXTENDS Integers, Sequences, FiniteSets, TLC

\* ---- bounds of the model
MaxIncidents == 2
MaxConns == 2
MaxUpdates == 3
MaxReqs == 1
\* requests and client messages of a run, and send_json calls that raise
MaxInputs == 5
MaxFaults == 1
\* the same for the runs of DeepSpec, which start with two jobs of one
\* incident under way and where no send_json raises
MaxDeepInputs == 3

\* the longest message of SummarySpec
MaxMessageLen == 165

\* ---- program constants
MAX_WORKERS == 2
\* Stage B keeps message[:160]
SummaryPrefix == 160

IncidentIds == 1..MaxIncidents
Conns == 1..MaxConns
Workers == 1..MAX_WORKERS
Reqs == 1..MaxReqs
EventIds == 1..MaxUpdates

IncidentStatus == {"investigating", "monitoring", "resolved"}

\* str() of a member of IncidentStatus: Enum.__str__, class and member name
str(status) == "IncidentStatus." \o status

\* ---- the coroutines that broadcast
WorkerTask(w) == <<"worker", w>>
WsTask(c) == <<"ws", c>>
ReqTask(r) == <<"req", r>>
Tasks == ({"worker"} \X Workers) \cup ({"ws"} \X Conns) \cup ({"req"} \X Reqs)

VARIABLES
    next_id,          \* IncidentStore._next_id
    incidents,        \* IncidentStore._incidents: id -> [status, timeline]
    processor_queue,  \* the asyncio.Queue of HumanUpdateJob
    locks,            \* IncidentLockManager._locks: id -> [locked, waiters]
    rooms,            \* WebSocketRoomManager._rooms: id -> set of connections
    w_pc,             \* worker -> where worker_loop is suspended
    w_job,            \* worker -> the job it holds
    ws_pc,            \* connection -> where incident_room_ws is suspended
    ws_incident,      \* connection -> the incident_id of its path
    initial_len,      \* history: connection -> events in its initial_state
    ws_event,         \* connection -> event_id of the update being broadcast
    req_pc,           \* request -> where update_incident_status is suspended
    bc,               \* task -> the broadcast() call it is suspended in
    n_updates,        \* human updates accepted so far (gives the event ids)
    inputs_left,      \* requests and client messages still to come
    faults_left,      \* send_json calls that may still raise
    resolvedAtGet,    \* history: worker -> was its job's incident resolved at get()
    discarded,        \* history: human_event_ids of jobs dropped by a worker
    finished,         \* history: human_event_ids of jobs run through Stage B
    failed,           \* history: connections a broadcast's send_json raised for
    pruned,           \* history: connections removed by a broadcast's dead pass
    sent_to,          \* history: connection -> the events sent to it, in the
                      \* order of the send_json calls
    submitted,        \* history: human_event_ids in the order of queue.put
    message,          \* SummarySpec: job.message, a sequence of characters
    summary           \* SummarySpec: the summary Stage B makes of it

vars == <<next_id, incidents, processor_queue, locks, rooms, w_pc, w_job,
          ws_pc, ws_incident, ws_event, req_pc, bc, n_updates, inputs_left,
          faults_left, resolvedAtGet, discarded, finished, failed, pruned,
          initial_len, sent_to,
          submitted, message, summary>>

storeVars == <<next_id, incidents>>
workerVars == <<w_pc, w_job, resolvedAtGet>>
wsVars == <<ws_pc, ws_incident, ws_event, initial_len>>
textVars == <<message, summary>>

\* ------------------------------------------------------------------ models.py

TimelineEvent(type, event_id, source_event_id, from, to) ==
    [type |-> type, event_id |-> event_id,
     source_event_id |-> source_event_id, from |-> from, to |-> to]

Incident(id) ==
    [id |-> id, status |-> "investigating", timeline |-> <<>>]

\* ------------------------------------------------------------------ store.py

SystemCreatedEvent == TimelineEvent("system", 0, 0, "-", "-")

create_incident(incs, id) ==
    incs @@ (id :> [Incident(id) EXCEPT !.timeline = <<SystemCreatedEvent>>])

\* get_incident: the incident, or None (here the record of id 0)
None == [id |-> 0, status |-> "-", timeline |-> <<>>]

get_incident(incs, id) == IF id \in DOMAIN incs THEN incs[id] ELSE None

\* a store that puts the new event first
add_eventAtFront(incs, id, event) ==
    [incs EXCEPT ![id].timeline = <<event>> \o @]

add_event(incs, id, event) ==
    [incs EXCEPT ![id].timeline = Append(@, event)]

update_status(incs, id, new_status) ==
    [incs EXCEPT ![id].status = new_status,
                 ![id].timeline =
                     Append(@, TimelineEvent("status_change", 0, 0,
                                             incs[id].status, new_status))]

\* ------------------------------------------------------------------ processor.py

HumanUpdateJob(incident_id, human_event_id) ==
    [incident_id |-> incident_id, human_event_id |-> human_event_id]

NoJob == HumanUpdateJob(0, 0)

\* a lock manager that hands out a new lock at every call
get_lockAlwaysNew(lks, id) ==
    [k \in DOMAIN lks \cup {id} |->
        IF k = id THEN [locked |-> FALSE, waiters |-> <<>>] ELSE lks[k]]

\* IncidentLockManager.get_lock: the lock is created on first use
get_lock(lks, id) ==
    IF id \in DOMAIN lks THEN lks
    ELSE lks @@ (id :> [locked |-> FALSE, waiters |-> <<>>])

\* a lock that never makes a caller wait
LockFreeAlways(lock) == TRUE

\* a lock that ignores its waiters: whoever finds it released takes it
LockFreeBarging(lock) == ~lock.locked

\* asyncio.Lock.acquire returns at once only when the lock is neither held
\* nor waited for; otherwise the caller queues up behind the waiters
LockFree(lock) == ~lock.locked /\ lock.waiters = <<>>

\* a lock that is not released
LockReleaseForgotten(lks, id) == lks

\* asyncio.Lock.release (leaving the async with): the first waiter is woken
LockRelease(lks, id) == [lks EXCEPT ![id].locked = FALSE]

AiTagEvent(job) == TimelineEvent("ai_tag", 0, job.human_event_id, "-", "-")

\* a summary that does not name the update it summarises
AiSummaryEventNoSource(job) == TimelineEvent("ai_summary", 0, 0, "-", "-")

AiSummaryEvent(job) ==
    TimelineEvent("ai_summary", 0, job.human_event_id, "-", "-")

\* ------------------------------------------------------------------ websocket_manager.py

\* a broadcast() frame that is not running; `lock`: does the frame hold
\* self._lock
NoBroadcast ==
    [incident_id |-> 0, msg |-> 0, sockets |-> {}, todo |-> {}, cur |-> 0,
     dead |-> {}, lock |-> FALSE]

\* connect, after accept(): the room is created when absent
RoomConnect(rms, id, ws) ==
    IF id \in DOMAIN rms THEN [rms EXCEPT ![id] = @ \cup {ws}]
    ELSE rms @@ (id :> {ws})

\* a room that is emptied but stays in the directory
DelRoomKeepsKey(rms, id) == [rms EXCEPT ![id] = {}]

\* dict without one key
DelRoom(rms, id) == [k \in DOMAIN rms \ {id} |-> rms[k]]

\* disconnect: discard, and delete the room when it is left empty
RoomDisconnect(rms, id, ws) ==
    IF id \in DOMAIN rms
    THEN IF rms[id] \ {ws} = {} THEN DelRoom(rms, id)
         ELSE [rms EXCEPT ![id] = @ \ {ws}]
    ELSE rms

\* a snapshot of every room instead of the one room
SnapshotAllRooms(rms, id) == UNION {rms[k] : k \in DOMAIN rms}

\* broadcast: the membership snapshot taken under the lock
Snapshot(rms, id) == IF id \in DOMAIN rms THEN rms[id] ELSE {}

\* a dead pass that removes nothing
PruneDeadSkipped(rms, id, dead) == rms

\* a dead pass that closes the whole room
PruneDeadWholeRoom(rms, id, dead) ==
    IF dead # {} /\ id \in DOMAIN rms THEN DelRoom(rms, id) ELSE rms

\* broadcast: the follow-up pass over the dead list (skipped when it is empty)
PruneDead(rms, id, dead) ==
    IF dead # {} /\ id \in DOMAIN rms
    THEN IF rms[id] \ dead = {} THEN DelRoom(rms, id)
         ELSE [rms EXCEPT ![id] = @ \ dead]
    ELSE rms

\* a broadcast that sends inside `async with self._lock`
LockHeldInSendLoop == TRUE

\* broadcast has left `async with self._lock` when the send loop starts
LockHeldWhileSending == FALSE

\* the broadcast() frame once the first send_json (to ws) has been called;
\* msg is the place in the timeline of the event that is broadcast
BroadcastFrame(rms, id, msg, ws) ==
    [incident_id |-> id, msg |-> msg, sockets |-> Snapshot(rms, id),
     todo |-> Snapshot(rms, id) \ {ws}, cur |-> ws, dead |-> {},
     lock |-> LockHeldWhileSending]

\* the dead list once the send_json in flight has returned (ok) or raised
DeadAfter(frame, ok) == IF ok THEN frame.dead ELSE frame.dead \cup {frame.cur}

Broadcasting(t) == bc[t].cur # 0

\* self._lock can be acquired without waiting: connect, disconnect and
\* broadcast await nothing else inside `async with self._lock`, so only a
\* broadcast frame could hold it while its coroutine is suspended
RoomLockFree == \A t \in Tasks : ~bc[t].lock

\* ------------------------------------------------------------------ the environment

\* one more request or client message arrives
Input ==
    /\ inputs_left > 0
    /\ inputs_left' = inputs_left - 1

\* can send_json encode what task t sends: the handlers and the workers send
\* model_dump(mode="json"); update_incident_status sends model_dump(), whose
\* created_at is a datetime that json.dumps refuses
Serialisable(t) == t[1] # "req"

\* a send_json of task t comes back: it returned (ok) or it raised
SendOutcome(t, ok) ==
    /\ ok => Serialisable(t)
    /\ ok \/ ~Serialisable(t) \/ faults_left > 0
    /\ faults_left' = IF ok \/ ~Serialisable(t) THEN faults_left
                      ELSE faults_left - 1

\* ------------------------------------------------------------------ broadcast steps

\* the history once send_json has been called to send ws the event at place
\* msg of the timeline
SentTo(ws, msg) == [sent_to EXCEPT ![ws] = Append(@, msg)]

\* ws_manager.broadcast(id, ...) called by task t, up to its first suspension:
\* with an empty snapshot it returns at once, otherwise it is suspended in
\* the first send_json.  Every caller broadcasts the event it has just
\* appended, the last of the timeline.
BroadcastCall(t, rms, id) ==
    /\ RoomLockFree
    /\ IF Snapshot(rms, id) = {}
       THEN UNCHANGED <<bc, sent_to>>
       ELSE \E ws \in Snapshot(rms, id) :
                /\ bc' = [bc EXCEPT ![t] =
                             BroadcastFrame(rms, id,
                                            Len(incidents'[id].timeline), ws)]
                /\ sent_to' = SentTo(ws, Len(incidents'[id].timeline))

BroadcastReturnsAtOnce(rms, id) == Snapshot(rms, id) = {}

\* the loop test of `for ws in sockets` after a send_json has come back
MoreToSend(frame) == frame.todo # {}

\* a send_json of task t comes back and the loop calls the next one
SendNext(t, ok) ==
    /\ Broadcasting(t)
    /\ MoreToSend(bc[t])
    /\ SendOutcome(t, ok)
    /\ \E ws \in bc[t].todo :
           /\ bc' = [bc EXCEPT ![t] = [@ EXCEPT !.todo = @ \ {ws}, !.cur = ws,
                                                !.dead = DeadAfter(bc[t], ok)]]
           /\ sent_to' = SentTo(ws, bc[t].msg)
    /\ failed' = IF ok THEN failed ELSE failed \cup {bc[t].cur}
    /\ UNCHANGED <<storeVars, processor_queue, locks, rooms, workerVars,
                   wsVars, req_pc, n_updates, inputs_left, discarded, finished,
                   pruned, submitted, textVars>>

\* the last send_json of task t comes back: the dead pass runs and
\* broadcast() returns to its caller
LastSendReturns(t, ok) ==
    /\ Broadcasting(t)
    /\ ~MoreToSend(bc[t])
    /\ SendOutcome(t, ok)
    /\ DeadAfter(bc[t], ok) # {} => RoomLockFree
    /\ rooms' = PruneDead(rooms, bc[t].incident_id, DeadAfter(bc[t], ok))
    /\ bc' = [bc EXCEPT ![t] = NoBroadcast]
    /\ failed' = IF ok THEN failed ELSE failed \cup {bc[t].cur}
    /\ pruned' = pruned \cup bc[t].dead \cup (IF ok THEN {} ELSE {bc[t].cur})
    /\ UNCHANGED sent_to

\* ------------------------------------------------------------------ worker_loop

\* worker_loop from the lock being acquired to the next suspension, lks being
\* the lock table with the lock taken: the re-validation, then Stage A.
\* (res: was the incident resolved when the job was taken from the queue.)
WorkerEnter(w, job, lks, res) ==
    LET inc == get_incident(incidents, job.incident_id) IN
    IF inc = None \/ str(inc.status) = "resolved"
    THEN \* `continue`: the async with releases the lock, back to queue.get()
         /\ locks' = LockRelease(lks, job.incident_id)
         /\ w_pc' = [w_pc EXCEPT ![w] = "get"]
         /\ w_job' = [w_job EXCEPT ![w] = NoJob]
         /\ discarded' = discarded \cup {job.human_event_id}
         /\ resolvedAtGet' = [resolvedAtGet EXCEPT ![w] = FALSE]
         /\ UNCHANGED <<incidents, bc, sent_to>>
    ELSE /\ locks' = lks
         /\ incidents' = add_event(incidents, job.incident_id, AiTagEvent(job))
         /\ BroadcastCall(WorkerTask(w), rooms, job.incident_id)
         /\ w_pc' = [w_pc EXCEPT ![w] =
                IF BroadcastReturnsAtOnce(rooms, job.incident_id)
                THEN "sleep" ELSE "stageA"]
         /\ w_job' = [w_job EXCEPT ![w] = job]
         /\ resolvedAtGet' = [resolvedAtGet EXCEPT ![w] = res]
         /\ UNCHANGED discarded

\* queue.get() hands out the oldest job
QueueGet(q) == Head(q)

\* queue.get() returns a job; the worker asks for the incident's lock and
\* either has it at once or is suspended in acquire()
WorkerGet(w) ==
    /\ w_pc[w] = "get"
    /\ processor_queue # <<>>
    /\ LET job == QueueGet(processor_queue)
           lks == get_lock(locks, job.incident_id)
           res == get_incident(incidents, job.incident_id).status = "resolved"
       IN  /\ processor_queue' = Tail(processor_queue)
           /\ IF LockFree(lks[job.incident_id])
              THEN WorkerEnter(w, job,
                       [lks EXCEPT ![job.incident_id].locked = TRUE], res)
              ELSE /\ locks' = [lks EXCEPT ![job.incident_id].waiters =
                                               Append(@, w)]
                   /\ w_pc' = [w_pc EXCEPT ![w] = "lock"]
                   /\ w_job' = [w_job EXCEPT ![w] = job]
                   /\ resolvedAtGet' = [resolvedAtGet EXCEPT ![w] = res]
                   /\ UNCHANGED <<incidents, bc, sent_to, discarded>>
    /\ UNCHANGED <<next_id, rooms, wsVars, req_pc, n_updates, inputs_left,
                   faults_left, finished, failed,
                   pruned, submitted, textVars>>

\* the released lock wakes its first waiter, which takes it
WorkerLocked(w) ==
    /\ w_pc[w] = "lock"
    /\ LET id == w_job[w].incident_id IN
           /\ ~locks[id].locked
           /\ Head(locks[id].waiters) = w
           /\ WorkerEnter(w, w_job[w],
                  [locks EXCEPT ![id].locked = TRUE,
                                ![id].waiters = Tail(@)],
                  resolvedAtGet[w])
    /\ UNCHANGED <<next_id, processor_queue, rooms, wsVars, req_pc,
                   n_updates, inputs_left, faults_left, finished, failed,
                   pruned, submitted, textVars>>

\* the Stage A broadcast returns: the worker goes to sleep(1.5)
WorkerStageADone(w, ok) ==
    /\ w_pc[w] = "stageA"
    /\ LastSendReturns(WorkerTask(w), ok)
    /\ w_pc' = [w_pc EXCEPT ![w] = "sleep"]
    /\ UNCHANGED <<storeVars, processor_queue, locks, w_job, resolvedAtGet,
                   wsVars, req_pc, n_updates, inputs_left, discarded, finished,
                   submitted, textVars>>

\* a worker that ends with its first job
WorkerLeaveStops(w) ==
    /\ locks' = LockRelease(locks, w_job[w].incident_id)
    /\ w_pc' = [w_pc EXCEPT ![w] = "stopped"]
    /\ w_job' = [w_job EXCEPT ![w] = NoJob]
    /\ finished' = finished \cup {w_job[w].human_event_id}
    /\ resolvedAtGet' = [resolvedAtGet EXCEPT ![w] = FALSE]

\* the job is through: the async with releases the lock, task_done(), and the
\* worker is back at queue.get().  With a job on the queue the code runs
\* straight on into WorkerGet; here other coroutines may run in between,
\* which adds interleavings and takes none away.
WorkerLeave(w) ==
    /\ locks' = LockRelease(locks, w_job[w].incident_id)
    /\ w_pc' = [w_pc EXCEPT ![w] = "get"]
    /\ w_job' = [w_job EXCEPT ![w] = NoJob]
    /\ finished' = finished \cup {w_job[w].human_event_id}
    /\ resolvedAtGet' = [resolvedAtGet EXCEPT ![w] = FALSE]

\* sleep(1.5) is over: Stage B appends the summary and broadcasts it
WorkerStageB(w) ==
    /\ w_pc[w] = "sleep"
    /\ incidents' = add_event(incidents, w_job[w].incident_id,
                              AiSummaryEvent(w_job[w]))
    /\ BroadcastCall(WorkerTask(w), rooms, w_job[w].incident_id)
    /\ IF BroadcastReturnsAtOnce(rooms, w_job[w].incident_id)
       THEN WorkerLeave(w)
       ELSE /\ w_pc' = [w_pc EXCEPT ![w] = "stageB"]
            /\ UNCHANGED <<locks, w_job, finished, resolvedAtGet>>
    /\ UNCHANGED <<next_id, processor_queue, rooms, wsVars, req_pc,
                   n_updates, inputs_left, faults_left, discarded, failed,
                   pruned, submitted, textVars>>

\* the Stage B broadcast returns
WorkerStageBDone(w, ok) ==
    /\ w_pc[w] = "stageB"
    /\ LastSendReturns(WorkerTask(w), ok)
    /\ WorkerLeave(w)
    /\ UNCHANGED <<storeVars, processor_queue, wsVars, req_pc, n_updates,
                   inputs_left, discarded,
                   submitted, textVars>>

\* ------------------------------------------------------------------ main.py

HumanUpdateEvent(event_id) ==
    TimelineEvent("human_update", event_id, 0, "-", "-")

SystemResolvedEvent == TimelineEvent("system", 0, 0, "-", "-")

\* POST /incidents (a thread of the pool; the store lock makes it atomic)
CreateIncident ==
    /\ next_id <= MaxIncidents
    /\ Input
    /\ incidents' = create_incident(incidents, next_id)
    /\ next_id' = next_id + 1
    /\ UNCHANGED <<processor_queue, locks, rooms, workerVars, wsVars, req_pc,
                   bc, n_updates, faults_left, discarded, finished, failed,
                   pruned, sent_to, submitted, textVars>>

\* PATCH /incidents/{id}/status up to its first suspension: update_status,
\* and when str(inc.status) is "resolved" the system event and the call of
\* broadcast.  (An unknown id answers 404 and changes nothing.)
UpdateIncidentStatus(r, id, new_status) ==
    /\ req_pc[r] = "idle"
    /\ id \in DOMAIN incidents
    /\ Input
    /\ IF str(update_status(incidents, id, new_status)[id].status) = "resolved"
       THEN /\ incidents' = add_event(update_status(incidents, id, new_status),
                                      id, SystemResolvedEvent)
            /\ BroadcastCall(ReqTask(r), rooms, id)
            /\ req_pc' = [req_pc EXCEPT ![r] =
                   IF BroadcastReturnsAtOnce(rooms, id)
                   THEN "idle" ELSE "broadcast"]
       ELSE /\ incidents' = update_status(incidents, id, new_status)
            /\ UNCHANGED <<bc, sent_to, req_pc>>
    /\ UNCHANGED <<next_id, processor_queue, locks, rooms, workerVars, wsVars,
                   n_updates, faults_left, discarded, finished, failed,
                   pruned, submitted, textVars>>

\* the broadcast of the system event returns and the request is answered
UpdateIncidentStatusDone(r, ok) ==
    /\ req_pc[r] = "broadcast"
    /\ LastSendReturns(ReqTask(r), ok)
    /\ req_pc' = [req_pc EXCEPT ![r] = "idle"]
    /\ UNCHANGED <<storeVars, processor_queue, locks, workerVars, wsVars,
                   n_updates, inputs_left, discarded, finished,
                   submitted, textVars>>

\* a client opens /ws/incidents/{id} and accept() returns: the connection
\* joins the room and initial_state is sent.  The run before accept() only
\* looks the incident up, and an incident once created stays, so the two runs
\* are one action; a handler that ends there (unknown incident, close(1008),
\* or accept() raising) has touched nothing and is left out.
WsConnect(c, id) ==
    /\ ws_pc[c] = "new"
    /\ get_incident(incidents, id) # None
    /\ Input
    /\ RoomLockFree
    /\ ws_incident' = [ws_incident EXCEPT ![c] = id]
    /\ initial_len' = [initial_len EXCEPT ![c] = Len(incidents[id].timeline)]
    /\ rooms' = RoomConnect(rooms, id, c)
    /\ ws_pc' = [ws_pc EXCEPT ![c] = "initial_state"]
    /\ UNCHANGED <<storeVars, processor_queue, locks, workerVars, ws_event,
                   req_pc, bc, n_updates, faults_left, discarded, finished,
                   failed,
                   pruned, sent_to, submitted, textVars>>

\* either except clause of the handler: disconnect() and the handler ends
WsDisconnect(c) ==
    /\ RoomLockFree
    /\ rooms' = RoomDisconnect(rooms, ws_incident[c], c)
    /\ ws_pc' = [ws_pc EXCEPT ![c] = "closed"]

\* the send_json of initial_state, or of the "resolved" notice, comes back: the
\* handler waits for the next message, or the send raised and it disconnects
WsSent(c, ok) ==
    /\ ws_pc[c] \in {"initial_state", "notice"}
    /\ SendOutcome(WsTask(c), ok)
    /\ IF ok
       THEN /\ ws_pc' = [ws_pc EXCEPT ![c] = "receive"]
            /\ UNCHANGED rooms
       ELSE WsDisconnect(c)
    /\ UNCHANGED <<storeVars, processor_queue, locks, workerVars, ws_incident,
                   initial_len,
                   ws_event, req_pc, bc, n_updates, inputs_left, discarded,
                   finished, failed, pruned, sent_to, submitted, textVars>>

\* receive_json raises (the client is gone, or sent no valid message)
WsReceiveFails(c) ==
    /\ ws_pc[c] = "receive"
    /\ Input
    /\ WsDisconnect(c)
    /\ UNCHANGED <<storeVars, processor_queue, locks, workerVars, ws_incident,
                   initial_len,
                   ws_event, req_pc, bc, n_updates, faults_left, discarded,
                   finished, failed, pruned, sent_to, submitted, textVars>>

\* processor_queue.put of the job of the update whose event has id event_id
SubmitJob(c, event_id) ==
    /\ processor_queue' =
           Append(processor_queue, HumanUpdateJob(ws_incident[c], event_id))
    /\ submitted' = Append(submitted, event_id)

\* receive_json returns a message: when str(inc_latest.status) is
\* "resolved" it is answered with a notice; otherwise the human_update is
\* appended and broadcast, and when the broadcast returns at once the job is
\* put on the queue in the same run
WsReceive(c) ==
    /\ ws_pc[c] = "receive"
    /\ Input
    /\ LET id == ws_incident[c]
           inc_latest == get_incident(incidents, id)
           event_id == n_updates + 1
       IN  IF str(inc_latest.status) = "resolved"
           THEN /\ ws_pc' = [ws_pc EXCEPT ![c] = "notice"]
                /\ UNCHANGED <<incidents, processor_queue, ws_event, bc,
                               sent_to, n_updates, submitted>>
           ELSE /\ n_updates < MaxUpdates
                /\ n_updates' = event_id
                /\ incidents' = add_event(incidents, id,
                                          HumanUpdateEvent(event_id))
                /\ BroadcastCall(WsTask(c), rooms, id)
                /\ IF BroadcastReturnsAtOnce(rooms, id)
                   THEN /\ SubmitJob(c, event_id)
                        /\ UNCHANGED <<ws_pc, ws_event>>
                   ELSE /\ ws_pc' = [ws_pc EXCEPT ![c] = "broadcast"]
                        /\ ws_event' = [ws_event EXCEPT ![c] = event_id]
                        /\ UNCHANGED <<processor_queue, submitted>>
    /\ UNCHANGED <<next_id, locks, rooms, workerVars, ws_incident,
                   initial_len, req_pc,
                   faults_left, discarded, finished, failed, pruned, textVars>>

\* the broadcast of the human_update returns: the job is put on the queue
WsBroadcastDone(c, ok) ==
    /\ ws_pc[c] = "broadcast"
    /\ LastSendReturns(WsTask(c), ok)
    /\ SubmitJob(c, ws_event[c])
    /\ ws_pc' = [ws_pc EXCEPT ![c] = "receive"]
    /\ ws_event' = [ws_event EXCEPT ![c] = 0]
    /\ UNCHANGED <<storeVars, locks, workerVars, ws_incident,
                   initial_len, req_pc,
                   n_updates, inputs_left, discarded, finished, textVars>>

\* ------------------------------------------------------------------ broadcast returns

\* the last send_json of a broadcast() comes back and the caller goes on from
\* its `await ws_manager.broadcast(...)`
BroadcastReturns(t, ok) ==
    CASE t[1] = "worker" ->
             IF w_pc[t[2]] = "stageA" THEN WorkerStageADone(t[2], ok)
             ELSE WorkerStageBDone(t[2], ok)
      [] t[1] = "ws" -> WsBroadcastDone(t[2], ok)
      [] t[1] = "req" -> UpdateIncidentStatusDone(t[2], ok)

\* ------------------------------------------------------------------ initial state

\* workers, queue, locks and requests after construction; the run may take
\* `inputs` requests and client messages and `faults` send_json calls may raise
InitIdle(inputs, faults) ==
    /\ processor_queue = <<>>
    /\ locks = <<>>
    /\ w_pc = [w \in Workers |-> "get"]
    /\ w_job = [w \in Workers |-> NoJob]
    /\ ws_event = [c \in Conns |-> 0]
    /\ req_pc = [r \in Reqs |-> "idle"]
    /\ bc = [t \in Tasks |-> NoBroadcast]
    /\ n_updates = 0
    /\ inputs_left = inputs
    /\ faults_left = faults
    /\ resolvedAtGet = [w \in Workers |-> FALSE]
    /\ discarded = {}
    /\ finished = {}
    /\ failed = {}
    /\ pruned = {}
    /\ sent_to = [c \in Conns |-> <<>>]
    /\ submitted = <<>>

\* the state after construction
Init ==
    /\ next_id = 1
    /\ incidents = <<>>
    /\ rooms = <<>>
    /\ ws_pc = [c \in Conns |-> "new"]
    /\ ws_incident = [c \in Conns |-> 0]
    /\ initial_len = [c \in Conns |-> 0]
    /\ InitIdle(MaxInputs, MaxFaults)
    /\ message = <<>>
    /\ summary = <<>>

\* the jobs of the first two updates, both for incident 1
FirstJob == HumanUpdateJob(1, 1)
SecondJob == HumanUpdateJob(1, 2)

\* a state of a run: incident 1 has been created and connection 1 has joined
\* its room and been sent initial_state.  It has sent an update, whose job
\* worker 1 has taken and run through Stage A, and a second update, whose job
\* worker 2 has taken while worker 1 sleeps before Stage B, so that worker 2
\* waits for the lock.  Connection 1 has been delivered every event.
InitDeep ==
    /\ next_id = 2
    /\ incidents =
           add_event(
               add_event(
                   add_event(create_incident(<<>>, 1), 1, HumanUpdateEvent(1)),
                   1, AiTagEvent(FirstJob)),
               1, HumanUpdateEvent(2))
    /\ rooms = RoomConnect(<<>>, 1, 1)
    /\ ws_pc = [c \in Conns |-> IF c = 1 THEN "receive" ELSE "new"]
    /\ ws_incident = [c \in Conns |-> IF c = 1 THEN 1 ELSE 0]
    /\ initial_len = [c \in Conns |-> IF c = 1 THEN 1 ELSE 0]
    /\ ws_event = [c \in Conns |-> 0]
    /\ processor_queue = <<>>
    /\ locks = [get_lock(<<>>, 1) EXCEPT ![1].locked = TRUE,
                                         ![1].waiters = <<2>>]
    /\ w_pc = [w \in Workers |-> IF w = 1 THEN "sleep" ELSE "lock"]
    /\ w_job = [w \in Workers |-> IF w = 1 THEN FirstJob ELSE SecondJob]
    /\ resolvedAtGet = [w \in Workers |-> FALSE]
    /\ req_pc = [r \in Reqs |-> "idle"]
    /\ bc = [t \in Tasks |-> NoBroadcast]
    /\ n_updates = 2
    /\ submitted = <<1, 2>>
    /\ sent_to = [c \in Conns |-> IF c = 1 THEN <<2, 3, 4>> ELSE <<>>]
    /\ inputs_left = MaxDeepInputs
    /\ faults_left = 0
    /\ discarded = {}
    /\ finished = {}
    /\ failed = {}
    /\ pruned = {}
    /\ message = <<>>
    /\ summary = <<>>

\* ------------------------------------------------------------------ specification

Next ==
    \/ CreateIncident
    \/ \E r \in Reqs, id \in IncidentIds, st \in IncidentStatus :
           UpdateIncidentStatus(r, id, st)
    \/ \E c \in Conns, id \in IncidentIds : WsConnect(c, id)
    \/ \E c \in Conns, ok \in BOOLEAN : WsSent(c, ok)
    \/ \E c \in Conns : WsReceiveFails(c)
    \/ \E c \in Conns : WsReceive(c)
    \/ \E t \in Tasks, ok \in BOOLEAN : SendNext(t, ok)
    \/ \E w \in Workers : WorkerGet(w)
    \/ \E w \in Workers : WorkerLocked(w)
    \/ \E w \in Workers : WorkerStageB(w)
    \/ \E t \in Tasks, ok \in BOOLEAN : BroadcastReturns(t, ok)

Spec == Init /\ [][Next]_vars

\* runs that start with two jobs of one incident under way, without delivery
\* failures
DeepSpec == InitDeep /\ [][Next]_vars

\* the fairness of the event loop: a coroutine that can run does run (the
\* sleep ends, a lock that is released wakes its waiter, a job on the queue
\* wakes a worker), and a send_json in flight returns or raises
WorkerFairness ==
    \A w \in Workers :
        /\ WF_vars(WorkerGet(w))
        /\ WF_vars(WorkerLocked(w))
        /\ WF_vars(WorkerStageB(w))
        /\ WF_vars(\E ok \in BOOLEAN : SendNext(WorkerTask(w), ok))
        /\ WF_vars(\E ok \in BOOLEAN : WorkerStageADone(w, ok))
        /\ WF_vars(\E ok \in BOOLEAN : WorkerStageBDone(w, ok))

FairSpec == Init /\ [][Next]_vars /\ WorkerFairness

\* ------------------------------------------------------------------ Stage B summary

\* the characters of the messages
Chars == {"a", "b"}

\* WSClientMessage.message, min_length=1: every length up to MaxMessageLen,
\* each with either character last
Messages ==
    {[i \in 1..n |-> IF i = n THEN c ELSE IF i % 3 = 0 THEN "b" ELSE "a"] :
        n \in 1..MaxMessageLen, c \in Chars}

\* the literal text of the f-string
Label == <<"S", "u", "m", "m", "a", "r", "y", ":", " ">>

\* message[:n]
Slice(msg, n) == SubSeq(msg, 1, IF Len(msg) < n THEN Len(msg) ELSE n)

\* summary = f"Summary: {job.message[:160]}"
Summary(msg) == Label \o Slice(msg, SummaryPrefix)

\* a worker in Stage B with a job that carries some message
SummaryInit ==
    /\ next_id = 1
    /\ incidents = <<>>
    /\ rooms = <<>>
    /\ ws_pc = [c \in Conns |-> "new"]
    /\ ws_incident = [c \in Conns |-> 0]
    /\ initial_len = [c \in Conns |-> 0]
    /\ InitIdle(0, 0)
    /\ message \in Messages
    /\ summary = <<>>

\* Stage B makes the summary
StageBSummary ==
    /\ summary = <<>>
    /\ summary' = Summary(message)
    /\ UNCHANGED <<storeVars, processor_queue, locks, rooms, workerVars,
                   wsVars, req_pc, bc, n_updates, inputs_left, faults_left,
                   discarded, finished, failed, pruned, sent_to, submitted,
                   message>>

SummaryNext == StageBSummary

SummarySpec == SummaryInit /\ [][SummaryNext]_vars

\* ------------------------------------------------------------------ the claims

Timeline(id) == incidents[id].timeline

IsAi(e) == e.type \in {"ai_tag", "ai_summary"}

\* where the events of one type and source job stand in a timeline
Places(tl, type, h) ==
    {k \in 1..Len(tl) : tl[k].type = type /\ tl[k].source_event_id = h}

\* the connections registered under an incident
Registered(rms, id) == IF id \in DOMAIN rms THEN rms[id] ELSE {}

BroadcastBegins(t) == ~Broadcasting(t) /\ Broadcasting(t)'

BroadcastEnds(t) == Broadcasting(t) /\ ~Broadcasting(t)'

\* C1: in every timeline, once a job's ai_tag is appended no ai event of
\* another job is appended before that job's ai_summary: the (ai_tag,
\* ai_summary) pairs of two jobs of one incident never interleave.
C1_PairsNeverInterleave ==
    \A id \in DOMAIN incidents :
        LET tl == Timeline(id) IN
        \A k \in 1..Len(tl), m \in 1..Len(tl) :
            (/\ k < m
             /\ tl[k].type = "ai_tag"
             /\ IsAi(tl[m])
             /\ tl[m].source_event_id # tl[k].source_event_id)
            => \E j \in (k + 1)..(m - 1) :
                   /\ tl[j].type = "ai_summary"
                   /\ tl[j].source_event_id = tl[k].source_event_id

\* two jobs of one incident have both been through Stage A and Stage B
C1_Witness ==
    \E id \in DOMAIN incidents : \E h1 \in EventIds, h2 \in EventIds :
        /\ h1 # h2
        /\ Places(Timeline(id), "ai_summary", h1) # {}
        /\ Places(Timeline(id), "ai_summary", h2) # {}

\* C2: while an incident is resolved, a step appends to its timeline nothing
\* but status_change and system events (no human_update, ai_tag, ai_summary).
C2_NoEnrichmentOnceResolved ==
    [][\A id \in DOMAIN incidents :
          incidents[id].status = "resolved"
          => \A k \in (Len(incidents[id].timeline) + 1)
                          ..Len(incidents'[id].timeline) :
                 incidents'[id].timeline[k].type
                     \in {"status_change", "system"}]_vars

\* C3: a queued job whose incident's lock is free is never left on the queue
\* while every worker holds or waits for the lock of another incident.
C3_OtherIncidentsNeverWait ==
    \A q \in 1..Len(processor_queue) :
        LET id == processor_queue[q].incident_id IN
        (id \notin DOMAIN locks \/ LockFree(locks[id]))
        => ~(\A w \in Workers :
                 /\ w_pc[w] \in {"lock", "stageA", "sleep", "stageB"}
                 /\ w_job[w].incident_id # id)

\* where the human_update of id h stands in the timeline of incident id
UpdatePlace(id, h) ==
    CHOOSE k \in 1..Len(Timeline(id)) :
        Timeline(id)[k].type = "human_update" /\ Timeline(id)[k].event_id = h

HasUpdate(id, h) ==
    \E k \in 1..Len(Timeline(id)) :
        Timeline(id)[k].type = "human_update" /\ Timeline(id)[k].event_id = h

\* C4: a job yields at most one ai_tag and one ai_summary, the summary only
\* after the tag and in the timeline of the job's incident; a job that has
\* been processed for a not resolved incident has yielded exactly the two;
\* and a job is held once: on the queue, or by one worker, or done with.
C4_ExactlyOnePairPerJob ==
    \A h \in EventIds :
        /\ \A id \in DOMAIN incidents :
               LET tags == Places(Timeline(id), "ai_tag", h)
                   sums == Places(Timeline(id), "ai_summary", h)
               IN  /\ Cardinality(tags) <= 1
                   /\ Cardinality(sums) <= 1
                   /\ \A b \in sums : \E a \in tags : a < b
                   /\ tags # {} => HasUpdate(id, h)
        /\ h \in finished
           => \E id \in DOMAIN incidents :
                  /\ Cardinality(Places(Timeline(id), "ai_tag", h)) = 1
                  /\ Cardinality(Places(Timeline(id), "ai_summary", h)) = 1
        /\ Cardinality({q \in 1..Len(processor_queue) :
                           processor_queue[q].human_event_id = h})
           + Cardinality({w \in Workers : w_job[w].human_event_id = h})
           + (IF h \in finished THEN 1 ELSE 0)
           + (IF h \in discarded THEN 1 ELSE 0) <= 1

\* a job has been processed to the end
C4_Witness == finished # {}

\* C5: a job whose incident was resolved when the worker took it from the
\* queue is dropped as soon as the worker has the lock: no worker is in
\* Stage A, the sleep or Stage B with such a job.
C5_ResolvedJobYieldsNothing ==
    \A w \in Workers : resolvedAtGet[w] => w_pc[w] = "lock"

\* where a job stands in the order of queue.put (0: not put yet)
SubmitPlace(h) ==
    IF \E k \in 1..Len(submitted) : submitted[k] = h
    THEN CHOOSE k \in 1..Len(submitted) : submitted[k] = h
    ELSE 0

\* C6: in every timeline the ai_tag events stand in the order in which their
\* jobs were put on the queue.
C6_PerIncidentSubmissionOrder ==
    \A id \in DOMAIN incidents :
        LET tl == Timeline(id) IN
        \A k \in 1..Len(tl), m \in 1..Len(tl) :
            (k < m /\ tl[k].type = "ai_tag" /\ tl[m].type = "ai_tag")
            => SubmitPlace(tl[k].source_event_id)
                   < SubmitPlace(tl[m].source_event_id)

\* three jobs of one incident have been through Stage A
C6_Witness ==
    \E id \in DOMAIN incidents :
        Cardinality({k \in 1..Len(Timeline(id)) :
                        Timeline(id)[k].type = "ai_tag"}) >= 3

\* C7: while a handler is still broadcasting an update (its job not yet put)
\* no later human_update stands in that timeline, and the jobs of one incident
\* were put on the queue in the order of their human_update events.
C7_AppendBroadcastEnqueueAtomic ==
    /\ \A c \in Conns :
           ws_pc[c] = "broadcast"
           => \A k \in 1..Len(Timeline(ws_incident[c])) :
                  Timeline(ws_incident[c])[k].type = "human_update"
                  => k <= UpdatePlace(ws_incident[c], ws_event[c])
    /\ \A id \in DOMAIN incidents :
           \A a \in 1..Len(submitted), b \in 1..Len(submitted) :
               (a < b /\ HasUpdate(id, submitted[a])
                      /\ HasUpdate(id, submitted[b]))
               => UpdatePlace(id, submitted[a]) < UpdatePlace(id, submitted[b])

\* C8: the snapshot a broadcast starts from is the room of its incident as
\* registered at that moment, all of them connections opened for that
\* incident; every send_json goes to a member of the snapshot not sent to
\* before; and the broadcast ends only when none is left to send to.
C8_BroadcastReachesExactlyTheRoom ==
    [][\A t \in Tasks :
          /\ BroadcastBegins(t)
             => /\ bc'[t].sockets = Registered(rooms', bc'[t].incident_id)
                /\ \A ws \in bc'[t].sockets :
                       ws_incident'[ws] = bc'[t].incident_id
                /\ bc'[t].cur \in bc'[t].sockets
                /\ bc'[t].todo = bc'[t].sockets \ {bc'[t].cur}
          /\ (Broadcasting(t) /\ Broadcasting(t)' /\ bc'[t] # bc[t])
             => /\ bc'[t].sockets = bc[t].sockets
                /\ bc'[t].cur \in bc[t].todo
                /\ bc'[t].todo = bc[t].todo \ {bc'[t].cur}
          /\ BroadcastEnds(t) => bc[t].todo = {}]_vars

\* a broadcast has sent to the two members of its room
C8_Witness ==
    \E t \in Tasks :
        /\ Broadcasting(t)
        /\ Cardinality(bc[t].sockets) = 2
        /\ bc[t].todo = {}

\* C9 as stated: no send_json of a broadcast is started to a connection for
\* which a send_json of a broadcast has raised before.
C9_FailedOnceNeverSentAgain ==
    [][\A t \in Tasks :
          (Broadcasting(t)' /\ bc'[t].cur # bc[t].cur)
          => bc'[t].cur \notin failed]_vars

\* C9 as amended: the dead pass of a broadcast takes the connections its
\* sends raised for out of the room, a connection taken out is never
\* registered again, and no broadcast that starts later has it in its snapshot.
C9_PrunedNeverSentAgain ==
    /\ [](\A c \in pruned : \A id \in DOMAIN rooms : c \notin rooms[id])
    /\ [][\A t \in Tasks :
             /\ BroadcastEnds(t)
                => bc[t].dead \cup (failed' \ failed) \subseteq pruned'
             /\ BroadcastBegins(t) => bc'[t].sockets \cap pruned' = {}]_vars

\* a broadcast to a room is under way after a connection was pruned from it
C9_Witness ==
    \E c \in pruned : \E t \in Tasks :
        /\ Broadcasting(t)
        /\ bc[t].incident_id = ws_incident[c]
        /\ c \notin bc[t].sockets

InQueue(h) ==
    \E q \in 1..Len(processor_queue) : processor_queue[q].human_event_id = h

Enriched(h) ==
    /\ h \in finished
    /\ \E id \in DOMAIN incidents :
           /\ Places(Timeline(id), "ai_tag", h) # {}
           /\ Places(Timeline(id), "ai_summary", h) # {}

\* C10: under FairSpec every job put on the queue is in the end either dropped
\* by the worker's test under the lock or has its ai_tag and ai_summary
\* appended and the broadcast of both returned.
C10_SubmittedJobIsEnriched ==
    \A h \in EventIds : InQueue(h) ~> (h \in discarded \/ Enriched(h))

\* a job that was not the first to be put has been enriched, and no work is
\* left
C10_Witness ==
    \E h \in EventIds :
        /\ Enriched(h)
        /\ \E k \in 1..Len(submitted) : k > 1 /\ submitted[k] = h
        /\ processor_queue = <<>>
        /\ \A w \in Workers : w_pc[w] = "get"

\* C11: resolved is terminal: no step takes the status of a resolved incident
\* to investigating or monitoring.
C11_ResolvedIsTerminal ==
    [][\A id \in DOMAIN incidents :
          incidents[id].status = "resolved"
          => incidents'[id].status = "resolved"]_vars

\* the worker is inside `async with lock`, between Stage A and the end of
\* Stage B
InCriticalSection(w) == w_pc[w] \in {"stageA", "sleep", "stageB"}

\* C12: an incident has one lock, which stays in the table once created; a
\* worker in the critical section of an incident holds that lock, no other
\* worker is in the critical section of the same incident, and a worker that
\* waits is queued on that same lock.
C12_OneLockOneWorkerPerIncident ==
    /\ [](\A w \in Workers :
             LET id == w_job[w].incident_id IN
             /\ InCriticalSection(w)
                => /\ id \in DOMAIN locks
                   /\ locks[id].locked
                   /\ \A v \in Workers \ {w} :
                          InCriticalSection(v) => w_job[v].incident_id # id
             /\ w_pc[w] = "lock"
                => /\ id \in DOMAIN locks
                   /\ \E k \in 1..Len(locks[id].waiters) :
                          locks[id].waiters[k] = w)
    /\ [][\A id \in DOMAIN locks : id \in DOMAIN locks']_vars

\* one worker is in the critical section of an incident while the other,
\* holding a job of the same incident, waits for the lock
C12_Witness ==
    \E w \in Workers, v \in Workers :
        /\ InCriticalSection(w)
        /\ w_pc[v] = "lock"
        /\ w_job[v].incident_id = w_job[w].incident_id

\* C13: every room of the directory has a member.
C13_NoEmptyRoom == \A id \in DOMAIN rooms : rooms[id] # {}

\* the dead pass of a broadcast has removed a connection and its incident
\* has no room any more; another connection was closed by its handler
C13_Witness ==
    /\ \E c \in pruned : ws_incident[c] \notin DOMAIN rooms
    /\ \E c \in Conns \ pruned : ws_pc[c] = "closed"

\* C14: what a connection is sent stands in timeline order: of two events
\* sent to a connection for which no send_json has raised, the one sent first
\* was appended first.
C14_DeliveredInTimelineOrder ==
    \A c \in Conns \ failed :
        \A k \in 1..Len(sent_to[c]), m \in 1..Len(sent_to[c]) :
            k < m => sent_to[c][k] < sent_to[c][m]

\* has connection ws been sent the event at place msg of its timeline
WasSent(ws, msg) == \E k \in 1..Len(sent_to[ws]) : sent_to[ws][k] = msg

\* the connection for which the send_json of task t raises in this step, if
\* it does
RaisedNow(t) ==
    IF faults_left' # faults_left \/ ~Serialisable(t) THEN {bc[t].cur} ELSE {}

\* C15: a broadcast goes on after a send_json has raised and ends only when
\* every member of its snapshot has been sent the message; when it ends its
\* caller goes on as after any broadcast (the handler puts the job on the
\* queue, the worker goes to sleep or is through with the job); and the rooms
\* lose exactly the connections the sends of this broadcast raised for.
C15_FailureStaysLocal ==
    [][\A t \in Tasks :
          /\ (Broadcasting(t) /\ bc'[t] # bc[t] /\ MoreToSend(bc[t]))
             => /\ Broadcasting(t)'
                /\ bc'[t].dead = bc[t].dead \cup RaisedNow(t)
          /\ BroadcastEnds(t)
             => /\ \A ws \in bc[t].sockets : WasSent(ws, bc[t].msg)
                /\ \A id \in IncidentIds :
                       Registered(rooms', id) =
                           IF id = bc[t].incident_id
                           THEN Registered(rooms, id)
                                    \ (bc[t].dead \cup RaisedNow(t))
                           ELSE Registered(rooms, id)
                /\ bc[t].dead \subseteq failed
                /\ \A c \in Conns :
                       t = WsTask(c)
                       => /\ ws_pc'[c] = "receive"
                          /\ submitted' = Append(submitted, ws_event[c])
                /\ \A w \in Workers :
                       t = WorkerTask(w)
                       => IF w_pc[w] = "stageA" THEN w_pc'[w] = "sleep"
                          ELSE /\ w_pc'[w] = "get"
                               /\ w_job[w].human_event_id \in finished'
                               /\ ~locks'[w_job[w].incident_id].locked]_vars

\* a broadcast to a room of two has ended: the send to one connection
\* raised and it is out of the room, the other was sent the same event and is
\* still in the room
C15_Witness ==
    \E c \in pruned, d \in Conns \ failed :
        /\ ws_incident[d] = ws_incident[c]
        /\ d \in Registered(rooms, ws_incident[d])
        /\ \E m \in 1..Len(Timeline(ws_incident[c])) :
               WasSent(c, m) /\ WasSent(d, m)
        /\ \A t \in Tasks : ~Broadcasting(t)

\* C16: the Stage B summary of a message no longer than the prefix bound is
\* the fixed label followed by the unmodified message, and the summary of a
\* longer message is the label, the bounded prefix of the message and a
\* continuation marker after it.
C16_SummaryCutIsMarked ==
    summary # <<>> =>
        IF Len(message) <= SummaryPrefix
        THEN summary = Label \o message
        ELSE /\ Len(summary) > Len(Label) + SummaryPrefix
             /\ SubSeq(summary, 1, Len(Label) + SummaryPrefix)
                    = Label \o SubSeq(message, 1, SummaryPrefix)

\* C17: an incident's timeline is append-only: whatever is done, every
\* incident is still there and its previous timeline is an unchanged prefix of
\* its new one, so no event is deleted, reordered or modified.
C17_TimelineAppendOnly ==
    [][\A id \in DOMAIN incidents :
          /\ id \in DOMAIN incidents'
          /\ Len(incidents'[id].timeline) >= Len(Timeline(id))
          /\ SubSeq(incidents'[id].timeline, 1, Len(Timeline(id)))
                 = Timeline(id)]_vars

\* a timeline that create_incident, add_event (from a handler and from a
\* worker) and update_status have all written to
C17_Witness ==
    \E id \in DOMAIN incidents :
        /\ Timeline(id)[1].type = "system"
        /\ \E i, j, k \in 2..Len(Timeline(id)) :
               /\ Timeline(id)[i].type = "human_update"
               /\ Timeline(id)[j].type = "ai_tag"
               /\ Timeline(id)[k].type = "status_change"

\* the job of worker w ends in this step, completed or discarded
JobEnds(w) ==
    /\ w_job[w] # NoJob
    /\ w_job[w].human_event_id
           \in (finished' \cup discarded') \ (finished \cup discarded)

TimesSent(c, k) == Cardinality({m \in 1..Len(sent_to[c]) : sent_to[c][m] = k})

\* a broadcast of the event at place k of incident id has c in its snapshot
\* and has not come to it yet
SendPending(c, id, k) ==
    \E t \in Tasks :
        /\ Broadcasting(t)
        /\ bc[t].incident_id = id
        /\ bc[t].msg = k
        /\ c \in bc[t].todo

\* C20: a connection that has registered, has not been closed and has had no
\* send fail gets every event of its incident's timeline exactly once: an
\* event of its initial_state is never sent to it again, and a later event is
\* sent to it once, or is about to be by a broadcast that is under way.
C20_EveryEventExactlyOnce ==
    \A c \in Conns \ failed :
        ws_pc[c] \notin {"new", "closed"}
           => \A k \in 1..Len(Timeline(ws_incident[c])) :
                  IF k <= initial_len[c]
                  THEN TimesSent(c, k) = 0
                  ELSE \/ TimesSent(c, k) = 1
                       \/ /\ TimesSent(c, k) = 0
                          /\ SendPending(c, ws_incident[c], k)

====
